---- MODULE Spec2Model ----
(***************************************************************************)
(* json-toolkit: RFC6901 JSON pointers (src/src/pointer.rs) and the        *)
(* ValueExt tree accessor (src/src/lib.rs) over the json::JsonValue        *)
(* back-end (src/src/json/mod.rs).                                         *)
(*                                                                         *)
(* A Rust string is a sequence of one-character strings.  Option<T> is the *)
(* record [some |-> FALSE] or [some |-> TRUE, val |-> x]; Result<T, Error> *)
(* is [ok |-> TRUE, val |-> x] or [ok |-> FALSE, err |-> e].               *)
(***************************************************************************)
EXTENDS Integers, Sequences, FiniteSets, TLC

\* ------------------------------------------------------------------ bounds

\* Longest text handed to the Pointer constructors.
MaxLen == 4
\* Longest text of the second operand of a comparison.
MaxOther == 2
\* Longest literal key a caller escapes into a one-token pointer.
MaxTok == 3
\* Most reference tokens of a pointer handed to the tree accessor.
MaxDepth == 2

\* ------------------------------------------------------- std: Option, str

None == [some |-> FALSE]
Some(x) == [some |-> TRUE, val |-> x]
Ok(x) == [ok |-> TRUE, val |-> x]
Err(e) == [ok |-> FALSE, err |-> e]

\* The characters of the model: the separator, the escape character and two
\* characters that are at once ordinary, decimal digits and escape suffixes.
Chars == {"/", "~", "0", "1"}

\* The code point of a character (str's Ord is byte-wise).
Code(c) == CASE c = "/" -> 47 [] c = "0" -> 48 [] c = "1" -> 49 [] c = "~" -> 126

Strings(n) == UNION {[1..k -> Chars] : k \in 0..n}

Min(S) == CHOOSE x \in S : \A y \in S : x <= y

Reverse(s) == [i \in 1..Len(s) |-> s[Len(s) + 1 - i]]

\* str::is_empty
str_is_empty(s) == Len(s) = 0

\* str::starts_with(char)
str_starts_with(s, c) == Len(s) > 0 /\ s[1] = c

\* <str as Ord>::cmp: lexicographic on the bytes.
RECURSIVE str_cmp(_, _)
str_cmp(a, b) ==
    IF Len(a) = 0 /\ Len(b) = 0 THEN "Equal"
    ELSE IF Len(a) = 0 THEN "Less"
    ELSE IF Len(b) = 0 THEN "Greater"
    ELSE IF Code(a[1]) < Code(b[1]) THEN "Less"
    ELSE IF Code(a[1]) > Code(b[1]) THEN "Greater"
    ELSE str_cmp(Tail(a), Tail(b))

\* <usize as Ord>::cmp
usize_cmp(m, n) == IF m < n THEN "Less" ELSE IF m > n THEN "Greater" ELSE "Equal"

\* str::rfind(char): the last position of c, 0 when there is none.
RECURSIVE str_rfind(_, _, _)
str_rfind(s, c, i) == IF i = 0 \/ s[i] = c THEN i ELSE str_rfind(s, c, i - 1)

\* str::rsplit_once(char): split at the last occurrence of c.
str_rsplit_once(s, c) ==
    LET at == str_rfind(s, c, Len(s))
    IN  IF at = 0 THEN None
        ELSE Some(<<SubSeq(s, 1, at - 1), SubSeq(s, at + 1, Len(s))>>)

\* str::split(char): the segments between the occurrences of c, never empty.
RECURSIVE str_split_from(_, _, _, _)
str_split_from(s, c, i, seg) ==
    IF i > Len(s) THEN <<seg>>
    ELSE IF s[i] = c THEN <<seg>> \o str_split_from(s, c, i + 1, <<>>)
    ELSE str_split_from(s, c, i + 1, Append(seg, s[i]))

str_split(s, c) == str_split_from(s, c, 1, <<>>)

\* str::match_indices(char), the indices only: zero-based, ascending.
RECURSIVE str_match_indices_from(_, _, _)
str_match_indices_from(s, c, i) ==
    IF i > Len(s) THEN <<>>
    ELSE (IF s[i] = c THEN <<i - 1>> ELSE <<>>) \o str_match_indices_from(s, c, i + 1)

str_match_indices(s, c) == str_match_indices_from(s, c, 1)

\* str::replace(&str, &str): the non-overlapping matches of a non-empty
\* pattern, found left to right, each replaced.
RECURSIVE str_replace(_, _, _)
str_replace(s, from, to) ==
    IF Len(s) < Len(from) THEN s
    ELSE IF SubSeq(s, 1, Len(from)) = from
         THEN to \o str_replace(SubSeq(s, Len(from) + 1, Len(s)), from, to)
         ELSE <<s[1]>> \o str_replace(Tail(s), from, to)

\* ------------------------------------------------------------ pointer.rs

\* A decoder with the two passes swapped.
decode_token_swapped(s) == str_replace(str_replace(s, <<"~", "0">>, <<"~">>), <<"~", "1">>, <<"/">>)

decode_token(s) == str_replace(str_replace(s, <<"~", "1">>, <<"/">>), <<"~", "0">>, <<"~">>)

\* A Pointer is its encoded text, the Cow's content: derived PartialEq, Eq
\* and Hash see nothing else.

\* A constructor that forgets the empty text.
Pointer_new_no_empty(s) ==
    IF ~str_starts_with(s, "/") THEN Err("MissingLeadingBackslash") ELSE Ok(s)

Pointer_new(s) ==
    IF ~str_is_empty(s) /\ ~str_starts_with(s, "/")
    THEN Err("MissingLeadingBackslash")
    ELSE Ok(s)

Pointer_root == <<>>

is_root(p) == str_is_empty(p)

as_str(p) == p

key(p) ==
    LET r == str_rsplit_once(p, "/")
    IN  IF r.some THEN Some(decode_token(r.val[2])) ELSE None

parent(p) ==
    LET r == str_rsplit_once(p, "/")
    IN  IF r.some THEN Some(r.val[1]) ELSE None

ancestors(p) ==
    LET cuts == Reverse(Append(str_match_indices(p, "/"), Len(p)))
    IN  [i \in 1..Len(cuts) |-> SubSeq(p, 1, cuts[i])]

\* other.ancestors().any(|pointer| pointer == *self)
is_ancestor_of(self, other) ==
    \E i \in 1..Len(ancestors(other)) : ancestors(other)[i] = self

\* other.parent().as_ref() == Some(self)
is_parent_of(self, other) == parent(other) = Some(self)

is_sibling_of(self, other) == self # other /\ parent(self) = parent(other)

depth(p) == Len(Tail(str_split(p, "/")))

into_owned(p) == p

tokenize(p) ==
    LET raw == Tail(str_split(p, "/"))
    IN  [i \in 1..Len(raw) |-> decode_token(raw[i])]

\* FromStr, TryFrom<&str>, TryFrom<String>
from_str(s) == Pointer_new(s)
try_from(s) == Pointer_new(s)

\* An ordering that compares the texts before the depths.
cmp_lexical(p, q) ==
    IF str_cmp(p, q) = "Equal" THEN usize_cmp(depth(p), depth(q)) ELSE str_cmp(p, q)

cmp(p, q) ==
    LET ordering == usize_cmp(depth(p), depth(q))
    IN  IF ordering = "Equal" THEN str_cmp(p, q) ELSE ordering

\* derive(serde::Deserialize) on the tuple struct: the text is taken as it is.
deserialize(s) == Ok(s)

\* --------------------------------------------------- json::JsonValue

\* A JSON value; an object keeps its entries in insertion order.
Null == [t |-> "null"]
Bool(b) == [t |-> "bool", b |-> b]
Num(n) == [t |-> "num", n |-> n]
Str(s) == [t |-> "str", s |-> s]
Arr(items) == [t |-> "arr", items |-> items]
Obj(entries) == [t |-> "obj", entries |-> entries]
Entry(k, v) == [k |-> k, v |-> v]

\* A reference into a tree is the place it points at: the positions taken
\* from the top, one per step, in an object's entries or an array's items.
Child(node, i) == IF node.t = "obj" THEN node.entries[i].v ELSE node.items[i]

RECURSIVE NodeAt(_, _)
NodeAt(tree, path) ==
    IF path = <<>> THEN tree ELSE NodeAt(Child(tree, path[1]), Tail(path))

\* The tree with the node at a place replaced (a write through a &mut).
RECURSIVE WriteAt(_, _, _)
WriteAt(tree, path, node) ==
    IF path = <<>> THEN node
    ELSE IF tree.t = "obj"
         THEN Obj([tree.entries EXCEPT ![path[1]] =
                       Entry(@.k, WriteAt(@.v, Tail(path), node))])
         ELSE Arr([tree.items EXCEPT ![path[1]] = WriteAt(@, Tail(path), node)])

\* json::object::Object::get / get_mut: the position of the entry of a key.
Object_get(entries, k) ==
    LET at == {i \in 1..Len(entries) : entries[i].k = k}
    IN  IF at = {} THEN None ELSE Some(Min(at))

\* json::object::Object::remove: the other entries keep their order.
Object_remove(entries, k) ==
    LET at == Object_get(entries, k)
    IN  IF at.some
        THEN [entries |-> SubSeq(entries, 1, at.val - 1)
                              \o SubSeq(entries, at.val + 1, Len(entries)),
              removed |-> Some(entries[at.val].v)]
        ELSE [entries |-> entries, removed |-> None]

\* json::object::Object::insert: a present key keeps its place, a new key
\* goes last.
Object_insert(entries, k, v) ==
    LET at == Object_get(entries, k)
    IN  IF at.some THEN [entries EXCEPT ![at.val] = Entry(k, v)]
        ELSE Append(entries, Entry(k, v))

\* <[T]>::get / get_mut
slice_get(items, i) == IF i < Len(items) THEN Some(i + 1) ELSE None

DigitVal(c) ==
    CASE c = "0" -> 0 [] c = "1" -> 1 [] c = "2" -> 2 [] c = "3" -> 3 [] c = "4" -> 4
      [] c = "5" -> 5 [] c = "6" -> 6 [] c = "7" -> 7 [] c = "8" -> 8 [] c = "9" -> 9

IsDigit(c) == c \in {"0", "1", "2", "3", "4", "5", "6", "7", "8", "9"}

RECURSIVE DigitsValue(_, _)
DigitsValue(s, acc) ==
    IF s = <<>> THEN acc ELSE DigitsValue(Tail(s), 10 * acc + DigitVal(s[1]))

\* str::parse::<usize>().ok(): an optional '+', then one or more decimal
\* digits (the texts of the model are far too short to overflow a usize).
parse_usize(s) ==
    LET digits == IF str_starts_with(s, "+") THEN Tail(s) ELSE s
    IN  IF digits # <<>> /\ \A i \in 1..Len(digits) : IsDigit(digits[i])
        THEN Some(DigitsValue(digits, 0))
        ELSE None

\* ------------------------------------------- json/mod.rs: ValueExt for Value

\* A step that indexes an array from one instead of zero.
pointer_step_one_based(tree, at, tok) ==
    LET value == NodeAt(tree, at)
    IN  IF value.t = "obj"
        THEN (LET i == Object_get(value.entries, tok)
              IN  IF i.some THEN Some(Append(at, i.val)) ELSE None)
        ELSE IF value.t = "arr"
        THEN (LET n == parse_usize(tok)
              IN  IF n.some /\ n.val >= 1
                  THEN (LET i == slice_get(value.items, n.val - 1)
                        IN  IF i.some THEN Some(Append(at, i.val)) ELSE None)
                  ELSE None)
        ELSE None

\* The closure of the fold: one step from the node at a place by one token.
pointer_step(tree, at, tok) ==
    LET value == NodeAt(tree, at)
    IN  IF value.t = "obj"
        THEN (LET i == Object_get(value.entries, tok)
              IN  IF i.some THEN Some(Append(at, i.val)) ELSE None)
        ELSE IF value.t = "arr"
        THEN (LET n == parse_usize(tok)
              IN  IF n.some
                  THEN (LET i == slice_get(value.items, n.val)
                        IN  IF i.some THEN Some(Append(at, i.val)) ELSE None)
                  ELSE None)
        ELSE None

\* Iterator::try_fold over Option: the first None ends the walk.
RECURSIVE try_fold(_, _, _)
try_fold(tree, toks, at) ==
    IF toks = <<>> THEN Some(at)
    ELSE LET r == pointer_step(tree, at, toks[1])
         IN  IF r.some THEN try_fold(tree, Tail(toks), r.val) ELSE None

\* ValueExt::pointer: the place of the pointee, if there is one.
pointer(tree, p) ==
    IF is_root(p) THEN Some(<<>>) ELSE try_fold(tree, tokenize(p), <<>>)

\* A pointer_mut that has nothing for the root pointer.
pointer_mut_no_root(tree, p) ==
    IF is_root(p) THEN None ELSE try_fold(tree, tokenize(p), <<>>)

\* ValueExt::pointer_mut: the same walk, by get_mut.
pointer_mut(tree, p) ==
    IF is_root(p) THEN Some(<<>>) ELSE try_fold(tree, tokenize(p), <<>>)

\* An insert that also pushes onto arrays.
insert_into_arrays(node, k, value) ==
    IF node.t = "obj"
    THEN [node |-> Obj(Object_insert(Object_remove(node.entries, k).entries, k, value)),
          res |-> Ok(Object_remove(node.entries, k).removed)]
    ELSE IF node.t = "arr"
    THEN [node |-> Arr(Append(node.items, value)), res |-> Ok(None)]
    ELSE [node |-> node, res |-> Err("UnsupportedInsertion")]

\* An insert that reports no previous value.
insert_forgets_previous(node, k, value) ==
    IF node.t = "obj"
    THEN [node |-> Obj(Object_insert(Object_remove(node.entries, k).entries, k, value)),
          res |-> Ok(None)]
    ELSE [node |-> node, res |-> Err("UnsupportedInsertion")]

\* ValueExt::insert: remove the key, then insert it; only into an object.
insert(node, k, value) ==
    IF node.t = "obj"
    THEN [node |-> Obj(Object_insert(Object_remove(node.entries, k).entries, k, value)),
          res |-> Ok(Object_remove(node.entries, k).removed)]
    ELSE [node |-> node, res |-> Err("UnsupportedInsertion")]

\* ------------------------------------------------- lib.rs: ValueExt::insert_at

Returned(tree, res) == [tree |-> tree, panicked |-> FALSE, res |-> res]
\* Option::unwrap on None: the call unwinds before it touches the tree.
Panicked(tree) == [tree |-> tree, panicked |-> TRUE]

\* An insert_at that makes the missing parent, as an object under the top.
insert_at_makes_parent(tree, p, value) ==
    IF is_root(p) THEN Returned(value, Ok(Some(tree)))
    ELSE IF ~parent(p).some \/ ~key(p).some THEN Panicked(tree)
    ELSE LET at == pointer_mut(tree, parent(p).val)
         IN  IF at.some
             THEN (LET r == insert(NodeAt(tree, at.val), key(p).val, value)
                   IN  Returned(WriteAt(tree, at.val, r.node), r.res))
             ELSE IF tree.t = "obj"
             THEN Returned(Obj(Append(tree.entries,
                                      Entry(parent(p).val, Obj(<<Entry(key(p).val, value)>>)))),
                           Ok(None))
             ELSE Returned(tree, Err("KeyNotFound"))

\* An insert_at that swaps the value in before it looks for the parent.
insert_at_swaps_first(tree, p, value) ==
    IF is_root(p) THEN Returned(value, Ok(Some(tree)))
    ELSE IF ~parent(p).some \/ ~key(p).some THEN Panicked(tree)
    ELSE LET at == pointer_mut(tree, parent(p).val)
         IN  IF at.some
             THEN (LET r == insert(NodeAt(tree, at.val), key(p).val, value)
                   IN  Returned(WriteAt(tree, at.val, r.node), r.res))
             ELSE Returned(value, Err("KeyNotFound"))

\* An insert_at that swaps at the root and reports no previous value.
insert_at_root_reports_none(tree, p, value) ==
    IF is_root(p) THEN Returned(value, Ok(None))
    ELSE IF ~parent(p).some \/ ~key(p).some THEN Panicked(tree)
    ELSE LET at == pointer_mut(tree, parent(p).val)
         IN  IF at.some
             THEN (LET r == insert(NodeAt(tree, at.val), key(p).val, value)
                   IN  Returned(WriteAt(tree, at.val, r.node), r.res))
             ELSE Returned(tree, Err("KeyNotFound"))

\* ValueExt::insert_at: swap at the root; else insert the key into the
\* pointee of the parent pointer.
insert_at(tree, p, value) ==
    IF is_root(p) THEN Returned(value, Ok(Some(tree)))
    ELSE IF ~parent(p).some \/ ~key(p).some THEN Panicked(tree)
    ELSE LET at == pointer_mut(tree, parent(p).val)
         IN  IF at.some
             THEN (LET r == insert(NodeAt(tree, at.val), key(p).val, value)
                   IN  Returned(WriteAt(tree, at.val, r.node), r.res))
             ELSE Returned(tree, Err("KeyNotFound"))

\* ------------------------------------------------------------ the callers

\* Every operation is a function of its arguments alone, so a behaviour is
\* one caller's run: it has a document or makes a Pointer, works on it, and
\* looks at a result.
VARIABLES
    tree,   \* the caller's JSON document
    ptr,    \* the Pointer the caller holds, if any (an Option)
    pc,     \* where the caller is in its run
    last    \* the last call: its name, arguments and result

vars == <<tree, ptr, pc, last>>

\* RFC6901 escaping of a literal key, done by the caller: '~' to "~0", then
\* '/' to "~1".
Encode(t) == str_replace(str_replace(t, <<"~">>, <<"~", "0">>), <<"/">>, <<"~", "1">>)

RECURSIVE Join(_)
Join(toks) == IF toks = <<>> THEN <<>> ELSE <<"/">> \o toks[1] \o Join(Tail(toks))

\* The raw (encoded) reference tokens of the pointers handed to the tree
\* accessor: they decode to "", "0", "1", "~", "/" and "~1".
RawTokens == {<<>>, <<"0">>, <<"1">>, <<"~", "0">>, <<"~", "1">>, <<"~", "0", "1">>}

WellFormedPointers == {Join(toks) : toks \in UNION {[1..k -> RawTokens] : k \in 0..MaxDepth}}

\* Texts Pointer::new accepts that name a node by a second spelling: '~'
\* before no '0' or '1' decodes to itself, as "~0" does, and "00" parses to
\* the index "0" parses to.
AliasPointers == {<<"/", "~">>, <<"/", "0", "0", "/", "~", "1">>}

\* The texts a deserialized Pointer can hold besides: no leading '/'.
MalformedPointers == {Tail(p) : p \in {w \in WellFormedPointers : depth(w) \in 1..(MaxDepth - 1)}}

TreePointers == WellFormedPointers \cup AliasPointers \cup MalformedPointers

NewValues == {Num(42), Obj(<<>>)}

InitTrees ==
    { Obj(<<Entry(<<"0">>, Obj(<<Entry(<<"1">>, Str("zoo"))>>))>>),
      Obj(<<Entry(<<"0">>, Str("bar")), Entry(<<"1">>, Arr(<<Num(1), Num(2)>>))>>),
      Arr(<<Obj(<<Entry(<<"/">>, Num(1))>>), Num(2)>>),
      Arr(<<Arr(<<Num(1)>>), Obj(<<>>)>>),
      Obj(<<Entry(<<>>, Obj(<<Entry(<<"~", "1">>, Num(1))>>)), Entry(<<"~">>, Bool(TRUE))>>),
      Obj(<<>>),
      Str("bar"),
      Null }

Init ==
    /\ tree \in InitTrees
    /\ ptr = None
    /\ pc = "ready"
    /\ last = [op |-> "init"]

\* value.insert_at(&pointer, v)
InsertAt ==
    /\ pc = "ready"
    /\ \E p \in TreePointers, v \in NewValues :
          LET r == insert_at(tree, p, v)
          IN  /\ tree' = r.tree
              /\ last' = [op |-> "insert_at", p |-> p, v |-> v, pre |-> tree, out |-> r]
    /\ pc' = "inserted"
    /\ UNCHANGED ptr

\* value.pointer(&pointer), the caller keeping in mind the call before
Resolve ==
    /\ pc \in {"ready", "inserted"}
    /\ \E p \in TreePointers :
          last' = [op |-> "pointer", p |-> p, pre |-> tree, res |-> pointer(tree, p),
                   after |-> last]
    /\ pc' = "done"
    /\ UNCHANGED <<tree, ptr>>

\* value.pointer_mut(&pointer), the caller writing nothing through it; and
\* value.pointer(&pointer) on the same document, to compare
ResolveMut ==
    /\ pc \in {"ready", "inserted"}
    /\ \E p \in TreePointers :
          last' = [op |-> "pointer_mut", p |-> p, pre |-> tree,
                   res |-> pointer_mut(tree, p), shared |-> pointer(tree, p)]
    /\ pc' = "done"
    /\ UNCHANGED <<tree, ptr>>

Next == InsertAt \/ Resolve \/ ResolveMut

Spec == Init /\ [][Next]_vars

\* ---- the Pointer's own operations; the document plays no part

PInit ==
    /\ tree = Null
    /\ ptr = None
    /\ pc = "make"
    /\ last = [op |-> "init"]

Keep(r) == IF r.ok THEN Some(r.val) ELSE None

\* The texts a caller passes to the constructors, the second operands of a
\* comparison, and the literal keys a caller escapes.
Texts == Strings(MaxLen)
Others == Strings(MaxOther)
LiteralKeys == Strings(MaxTok)

\* Pointer::new(s)
New ==
    /\ pc = "make"
    /\ \E s \in Texts :
          /\ ptr' = Keep(Pointer_new(s))
          /\ last' = [op |-> "new", arg |-> s, res |-> Pointer_new(s)]
    /\ pc' = "hold"
    /\ UNCHANGED tree

\* Pointer::new(format!("/{}", escaped)) for a literal key t
NewFromKey ==
    /\ pc = "make"
    /\ \E t \in LiteralKeys :
          /\ ptr' = Keep(Pointer_new(<<"/">> \o Encode(t)))
          /\ last' = [op |-> "new", arg |-> <<"/">> \o Encode(t),
                      res |-> Pointer_new(<<"/">> \o Encode(t))]
    /\ pc' = "hold"
    /\ UNCHANGED tree

\* Pointer::root()
Root ==
    /\ pc = "make"
    /\ ptr' = Some(Pointer_root)
    /\ last' = [op |-> "root"]
    /\ pc' = "hold"
    /\ UNCHANGED tree

\* s.parse::<Pointer>(): a call of Pointer::new
FromStr ==
    /\ pc = "make"
    /\ \E s \in Texts :
          /\ ptr' = Keep(from_str(s))
          /\ last' = [op |-> "new", arg |-> s, res |-> from_str(s)]
    /\ pc' = "hold"
    /\ UNCHANGED tree

\* Pointer::try_from(s), s a &str or a String: a call of Pointer::new
TryFrom ==
    /\ pc = "make"
    /\ \E s \in Texts :
          /\ ptr' = Keep(try_from(s))
          /\ last' = [op |-> "new", arg |-> s, res |-> try_from(s)]
    /\ pc' = "hold"
    /\ UNCHANGED tree

\* serde: a Pointer read from a JSON string
Deserialize ==
    /\ pc = "make"
    /\ \E s \in Texts :
          /\ ptr' = Keep(deserialize(s))
          /\ last' = [op |-> "deserialize", arg |-> s, res |-> deserialize(s)]
    /\ pc' = "hold"
    /\ UNCHANGED tree

\* pointer.parent(): the caller goes on with the parent, if there is one
Parent ==
    /\ pc = "hold" /\ ptr.some
    /\ ptr' = parent(ptr.val)
    /\ last' = [op |-> "parent", arg |-> ptr.val, res |-> parent(ptr.val)]
    /\ UNCHANGED <<tree, pc>>

\* pointer.ancestors().collect(): the caller goes on with one of the
\* pointers yielded
Ancestors ==
    /\ pc = "hold" /\ ptr.some
    /\ \E i \in 1..Len(ancestors(ptr.val)) : ptr' = Some(ancestors(ptr.val)[i])
    /\ last' = [op |-> "ancestors", arg |-> ptr.val, res |-> ancestors(ptr.val)]
    /\ UNCHANGED <<tree, pc>>

\* pointer.into_owned()
IntoOwned ==
    /\ pc = "hold" /\ ptr.some
    /\ ptr' = Some(into_owned(ptr.val))
    /\ last' = [op |-> "into_owned", arg |-> ptr.val]
    /\ UNCHANGED <<tree, pc>>

\* pointer.clone()
Clone ==
    /\ pc = "hold" /\ ptr.some
    /\ last' = [op |-> "clone", arg |-> ptr.val]
    /\ UNCHANGED <<tree, ptr, pc>>

\* pointer.key()
Key ==
    /\ pc = "hold" /\ ptr.some
    /\ last' = [op |-> "key", arg |-> ptr.val, res |-> key(ptr.val)]
    /\ pc' = "done"
    /\ UNCHANGED <<tree, ptr>>

\* pointer.tokenize().collect()
Tokenize ==
    /\ pc = "hold" /\ ptr.some
    /\ last' = [op |-> "tokenize", arg |-> ptr.val, res |-> tokenize(ptr.val)]
    /\ pc' = "done"
    /\ UNCHANGED <<tree, ptr>>

\* pointer.cmp(&other) and other.cmp(&pointer)
Cmp ==
    /\ pc = "hold" /\ ptr.some
    /\ \E q \in Others :
          last' = [op |-> "cmp", arg |-> ptr.val, other |-> q,
                   res |-> cmp(ptr.val, q), rev |-> cmp(q, ptr.val)]
    /\ pc' = "done"
    /\ UNCHANGED <<tree, ptr>>

\* pointer.is_parent_of(&other), other.is_parent_of(&pointer), and the two
\* weaker relations between the same pair
Relations ==
    /\ pc = "hold" /\ ptr.some
    /\ \E q \in Others :
          last' = [op |-> "is_parent_of", arg |-> ptr.val, other |-> q,
                   res |-> is_parent_of(ptr.val, q), rev |-> is_parent_of(q, ptr.val),
                   ancestor |-> is_ancestor_of(ptr.val, q),
                   sibling |-> is_sibling_of(ptr.val, q)]
    /\ pc' = "done"
    /\ UNCHANGED <<tree, ptr>>

PNext ==
    \/ New \/ NewFromKey \/ Root \/ FromStr \/ TryFrom \/ Deserialize
    \/ Parent \/ Ancestors \/ IntoOwned \/ Clone
    \/ Key \/ Tokenize \/ Cmp \/ Relations

PointerSpec == PInit /\ [][PNext]_vars

\* ------------------------------------------------------------ the claims

IsNewCall == last.op = "new"

\* C1: Pointer::new(s) fails, with MissingLeadingBackslash, exactly when s
\* is non-empty and does not start with '/'; otherwise it succeeds and the
\* pointer's as_str() is s.  "" and "/" both succeed and differ: the first
\* is the root, the second has the one token "".
C1_NewRejectsExactlyMissingSlash ==
    IsNewCall =>
        /\ (~last.res.ok) <=> (Len(last.arg) > 0 /\ last.arg[1] # "/")
        /\ ~last.res.ok => last.res.err = "MissingLeadingBackslash"
        /\ last.res.ok => as_str(last.res.val) = last.arg
        /\ last.arg = <<>> => last.res.ok /\ is_root(last.res.val)
        /\ last.arg = <<"/">> =>
               /\ last.res.ok
               /\ ~is_root(last.res.val)
               /\ last.res.val # Pointer_root
               /\ tokenize(last.res.val) = <<(<<>>)>>

C1_Witness ==
    /\ IsNewCall
    /\ last.arg = <<"0", "/", "1">>
    /\ last.res = Err("MissingLeadingBackslash")

IsInsertCall == last.op = "insert_at"

\* The entries of an object under a key, its keys, and the last decoded
\* token of a pointer, said without Object::get and key().
EntriesUnder(node, k) == {i \in 1..Len(node.entries) : node.entries[i].k = k}
ValuesUnder(node, k) == {node.entries[i].v : i \in EntriesUnder(node, k)}
KeysOf(node) == {node.entries[i].k : i \in 1..Len(node.entries)}
LastToken(p) == tokenize(p)[Len(tokenize(p))]

\* The call is insert_at with a pointer that has a parent pointer.
InsertsUnderParent == IsInsertCall /\ ~is_root(last.p) /\ parent(last.p).some

\* The place the parent pointer resolved to before the call, if any.
ParentPlace == pointer(last.pre, parent(last.p).val)

\* C2: when the parent pointer of a non-root p resolves to an object,
\* insert_at succeeds, the object then holds v under the decoded last token
\* of p, the call returns what was under that key before (None if nothing),
\* and every other key of the object and every node outside it is as before.
C2_InsertsUnderLastToken ==
    (/\ InsertsUnderParent
     /\ ParentPlace.some
     /\ NodeAt(last.pre, ParentPlace.val).t = "obj") =>
        LET at == ParentPlace.val
            old == NodeAt(last.pre, at)
            new == NodeAt(tree, at)
            k == LastToken(last.p)
        IN  /\ ~last.out.panicked
            /\ last.out.res.ok
            /\ tree = last.out.tree
            /\ new.t = "obj"
            /\ ValuesUnder(new, k) = {last.v}
            /\ last.out.res.val.some <=> (ValuesUnder(old, k) # {})
            /\ last.out.res.val.some => ValuesUnder(old, k) = {last.out.res.val.val}
            /\ KeysOf(new) = KeysOf(old) \cup {k}
            /\ \A k2 \in KeysOf(new) : Cardinality(EntriesUnder(new, k2)) = 1
            /\ \A k2 \in KeysOf(old) \ {k} : ValuesUnder(new, k2) = ValuesUnder(old, k2)
            /\ tree = WriteAt(last.pre, at, new)

\* {"0": {"1": "zoo"}}: "/0/1" overwrites and returns "zoo".
C2_Witness ==
    /\ InsertsUnderParent
    /\ last.p = <<"/", "0", "/", "1">>
    /\ last.out.res = Ok(Some(Str("zoo")))
    /\ tree = Obj(<<Entry(<<"0">>, Obj(<<Entry(<<"1">>, last.v)>>))>>)

\* C3: when the parent pointer of a non-root p resolves to nothing,
\* insert_at fails with KeyNotFound and makes nothing: the tree is as before.
C3_MissingParentIsKeyNotFound ==
    (InsertsUnderParent /\ ~ParentPlace.some) =>
        /\ last.out = Returned(last.pre, Err("KeyNotFound"))
        /\ tree = last.pre

\* {"0": {"1": "zoo"}}: "/1/0" has the missing parent "/1".
C3_Witness ==
    /\ InsertsUnderParent
    /\ last.pre = Obj(<<Entry(<<"0">>, Obj(<<Entry(<<"1">>, Str("zoo"))>>))>>)
    /\ last.p = <<"/", "1", "/", "0">>
    /\ last.out.res = Err("KeyNotFound")

\* C4: when the parent pointer of a non-root p resolves to a node that is
\* not an object (a scalar or an array), insert_at fails with
\* UnsupportedInsertion, also for an array and an index within it.
C4_NonObjectParentIsUnsupported ==
    (/\ InsertsUnderParent
     /\ ParentPlace.some
     /\ NodeAt(last.pre, ParentPlace.val).t # "obj") =>
        /\ last.out = Returned(last.pre, Err("UnsupportedInsertion"))
        /\ tree = last.pre

\* {"0": "bar", "1": [1, 2]}: "/1/0" names the first item of the array.
C4_Witness ==
    /\ InsertsUnderParent
    /\ last.p = <<"/", "1", "/", "0">>
    /\ ParentPlace.some
    /\ NodeAt(last.pre, ParentPlace.val) = Arr(<<Num(1), Num(2)>>)
    /\ pointer(last.pre, last.p).some
    /\ last.out.res = Err("UnsupportedInsertion")

\* C5: insert_at with the root pointer always succeeds, leaves the tree
\* equal to v and returns the whole previous tree, whatever its shape.
C5_RootInsertSwaps ==
    (IsInsertCall /\ is_root(last.p)) =>
        /\ last.out = Returned(last.v, Ok(Some(last.pre)))
        /\ tree = last.v

\* An array at the top is replaced and returned.
C5_Witness ==
    /\ IsInsertCall
    /\ last.p = Pointer_root
    /\ last.pre.t = "arr"
    /\ tree = Num(42)
    /\ last.out.res = Ok(Some(last.pre))

\* A token read as a decimal index, and the walk of the spec: by key in an
\* object, by index in an array, absent anywhere else.
IsIndexToken(tok) == tok # <<>> /\ \A i \in 1..Len(tok) : IsDigit(tok[i])

RECURSIVE IndexOf(_)
IndexOf(tok) ==
    IF tok = <<>> THEN 0
    ELSE 10 * IndexOf(SubSeq(tok, 1, Len(tok) - 1)) + DigitVal(tok[Len(tok)])

RECURSIVE Walk(_, _)
Walk(node, toks) ==
    IF toks = <<>> THEN Some(node)
    ELSE IF node.t = "obj"
    THEN (IF ValuesUnder(node, toks[1]) = {} THEN None
          ELSE Walk(CHOOSE x \in ValuesUnder(node, toks[1]) : TRUE, Tail(toks)))
    ELSE IF node.t = "arr"
    THEN (IF IsIndexToken(toks[1]) /\ IndexOf(toks[1]) < Len(node.items)
          THEN Walk(node.items[IndexOf(toks[1]) + 1], Tail(toks))
          ELSE None)
    ELSE None

\* C6: pointer(tree, p) is the whole tree for the root pointer; otherwise it
\* walks the decoded tokens of p from the top, by key in an object and by
\* decimal index in an array, and yields a node exactly when every step has
\* one, and then that node.
C6_ResolveWalksTokens ==
    last.op = "pointer" =>
        LET want == IF last.p = Pointer_root THEN Some(last.pre)
                    ELSE Walk(last.pre, tokenize(last.p))
        IN  /\ last.res.some <=> want.some
            /\ last.res.some => NodeAt(last.pre, last.res.val) = want.val
            /\ last.p = Pointer_root => last.res = Some(<<>>)

\* {"0": "bar", "1": [1, 2]}: "/1/0" is 1, through an object and an array.
C6_Witness ==
    /\ last.op = "pointer"
    /\ last.p = <<"/", "1", "/", "0">>
    /\ last.pre = Obj(<<Entry(<<"0">>, Str("bar")), Entry(<<"1">>, Arr(<<Num(1), Num(2)>>))>>)
    /\ last.res.some
    /\ NodeAt(last.pre, last.res.val) = Num(1)

\* C7: every Pointer a caller can hold, however it was obtained, has a
\* text that is empty or starts with '/'.
C7_PointerTextWellFormed ==
    ptr.some => (ptr.val = <<>> \/ ptr.val[1] = "/")

\* The number of '/' in a text, and the order of texts, said without the
\* code's split and cmp.
SlashCount(s) == Cardinality({i \in 1..Len(s) : s[i] = "/"})

TextBefore(a, b) ==
    \E k \in 1..(Len(b)) :
        /\ \A j \in 1..(k - 1) : j <= Len(a) /\ a[j] = b[j]
        /\ (k > Len(a) \/ (k <= Len(a) /\ Code(a[k]) < Code(b[k])))
        /\ k - 1 <= Len(a)

PrecedesByDepthThenText(p, q) ==
    \/ SlashCount(p) < SlashCount(q)
    \/ SlashCount(p) = SlashCount(q) /\ TextBefore(p, q)

\* C8: p < q exactly when p is shallower than q, or as deep and its text
\* the smaller one; so a shallower pointer precedes a deeper one whatever
\* their characters, and p compares Equal to q exactly when the texts are
\* equal.
C8_OrderIsDepthThenText ==
    last.op = "cmp" =>
        /\ (last.res = "Less") <=> PrecedesByDepthThenText(last.arg, last.other)
        /\ (last.rev = "Less") <=> PrecedesByDepthThenText(last.other, last.arg)
        /\ (last.res = "Greater") <=> PrecedesByDepthThenText(last.other, last.arg)
        /\ (last.res = "Equal") <=> (last.arg = last.other)
        /\ (last.rev = "Equal") <=> (last.arg = last.other)
        /\ depth(last.arg) = SlashCount(last.arg)
        /\ depth(last.other) < depth(last.arg) => last.rev = "Less"

\* "/~" precedes "/0/0" although '~' is greater than '0'.
C8_Witness ==
    /\ last.op = "cmp"
    /\ last.arg = <<"/", "0", "/", "0">>
    /\ last.other = <<"/", "~">>
    /\ last.rev = "Less"
    /\ TextBefore(last.arg, last.other)

\* C9: a token is decoded by replacing every "~1" by "/" and then every
\* "~0" by "~": "~01" decodes to "~1" and "~10" to "/0", in key() and in
\* tokenize(); and escaping a literal key ('~' to "~0", then '/' to "~1")
\* and decoding it gives the key back.
C9_DecodeUndoesEncode ==
    /\ last.op = "key" =>
          /\ last.arg = <<"/", "~", "0", "1">> => last.res = Some(<<"~", "1">>)
          /\ last.arg = <<"/", "~", "1", "0">> => last.res = Some(<<"/", "0">>)
          /\ \A t \in LiteralKeys :
                 last.arg = <<"/">> \o Encode(t) => last.res = Some(t)
    /\ last.op = "tokenize" =>
          /\ last.arg = <<"/", "~", "0", "1">> => last.res = <<(<<"~", "1">>)>>
          /\ last.arg = <<"/", "~", "1", "0">> => last.res = <<(<<"/", "0">>)>>
          /\ \A t \in LiteralKeys :
                 last.arg = <<"/">> \o Encode(t) => last.res = <<t>>

\* The key "~/1" is escaped to "~0~11" and read back.
C9_Witness ==
    /\ last.op = "key"
    /\ last.arg = <<"/">> \o Encode(<<"~", "/", "1">>)
    /\ last.arg = <<"/", "~", "0", "~", "1", "1">>
    /\ last.res = Some(<<"~", "/", "1">>)

\* C10: ancestors() yields the pointer itself, then its parent, then that
\* pointer's parent, and so on, and ends with the root: depth() + 1
\* pointers, each after the first the parent of the one before it.
C10_AncestorsRunToRoot ==
    last.op = "ancestors" =>
        /\ Len(last.res) = depth(last.arg) + 1
        /\ last.res[1] = last.arg
        /\ last.res[Len(last.res)] = Pointer_root
        /\ \A i \in 2..Len(last.res) : parent(last.res[i - 1]) = Some(last.res[i])
        /\ parent(last.res[Len(last.res)]) = None

\* What is left of C10 for the pointers the constructors accept.
C10_AncestorsOfWellFormed ==
    (last.op = "ancestors" /\ Pointer_new(last.arg).ok) =>
        /\ Len(last.res) = depth(last.arg) + 1
        /\ last.res[1] = last.arg
        /\ last.res[Len(last.res)] = Pointer_root
        /\ \A i \in 2..Len(last.res) : parent(last.res[i - 1]) = Some(last.res[i])
        /\ parent(last.res[Len(last.res)]) = None

\* ---- C11

\* The text of p without its last '/'-segment, found without parent(): the
\* prefix d with p = d, '/', seg and no '/' in seg.
HasNoSlash(seg) == \A i \in 1..Len(seg) : seg[i] # "/"

DropsLastSegment(d, p) ==
    /\ Len(d) < Len(p)
    /\ SubSeq(p, 1, Len(d)) = d
    /\ p[Len(d) + 1] = "/"
    /\ HasNoSlash(SubSeq(p, Len(d) + 2, Len(p)))

ParentAnswers(p, r) ==
    /\ ~r.some <=> p = Pointer_root
    /\ p # Pointer_root =>
          /\ r.some
          /\ DropsLastSegment(r.val, p)
          /\ depth(r.val) = depth(p) - 1
          /\ SlashCount(p) = 1 => r.val = Pointer_root
          /\ is_parent_of(r.val, p)

\* C11: parent() is None exactly for the root; the parent of a non-root
\* pointer is the pointer without its last '/'-segment, one level less deep
\* (root for a one-segment pointer), and it is_parent_of the pointer; and
\* is_parent_of holds for no pair but a pointer's parent and the pointer, so
\* not for a pointer and itself, a grandparent, or a child toward its parent.
C11_ParentDropsLastSegment ==
    /\ last.op = "parent" => ParentAnswers(last.arg, last.res)
    /\ last.op = "is_parent_of" =>
          /\ last.res <=> DropsLastSegment(last.arg, last.other)
          /\ last.rev <=> DropsLastSegment(last.other, last.arg)
          /\ last.arg = last.other => ~last.res
          /\ last.res => ~last.rev

\* What is left of C11 for the pointers the constructors accept.
C11_ParentOfWellFormed ==
    /\ (last.op = "parent" /\ Pointer_new(last.arg).ok) => ParentAnswers(last.arg, last.res)
    /\ last.op = "is_parent_of" =>
          /\ last.res <=> DropsLastSegment(last.arg, last.other)
          /\ last.rev <=> DropsLastSegment(last.other, last.arg)
          /\ last.arg = last.other => ~last.res
          /\ last.res => ~last.rev

\* ---- C12

\* C12: pointer_mut(tree, p) yields a node exactly when pointer(tree, p)
\* does, and then the node at the same place of the tree; both stop at the
\* first step that has no node.
C12_ResolveMutIsResolve ==
    last.op = "pointer_mut" =>
        /\ last.res.some <=> last.shared.some
        /\ last.res.some => last.res.val = last.shared.val
        /\ last.res.some =>
              NodeAt(last.pre, last.res.val) = NodeAt(last.pre, last.shared.val)
        /\ LET want == IF last.p = Pointer_root THEN Some(last.pre)
                        ELSE Walk(last.pre, tokenize(last.p))
           IN  /\ last.res.some <=> want.some
               /\ last.res.some => NodeAt(last.pre, last.res.val) = want.val

\* [[1], {}]: "/0/0" is the 1 inside the inner array, for both.
C12_Witness ==
    /\ last.op = "pointer_mut"
    /\ last.pre = Arr(<<Arr(<<Num(1)>>), Obj(<<>>)>>)
    /\ last.p = <<"/", "0", "/", "0">>
    /\ last.res = Some(<<1, 1>>)
    /\ last.shared = Some(<<1, 1>>)

\* ---- C13

\* The keys of an object in the order the object iterates them.
KeyOrder(node) == [i \in 1..Len(node.entries) |-> node.entries[i].k]

\* C13: when insert_at writes under a key the parent object already has,
\* the key keeps its place: the object iterates its keys in the same order
\* after the call as before it.
C13_OverwriteKeepsKeyOrder ==
    (/\ InsertsUnderParent
     /\ ParentPlace.some
     /\ NodeAt(last.pre, ParentPlace.val).t = "obj"
     /\ LastToken(last.p) \in KeysOf(NodeAt(last.pre, ParentPlace.val))) =>
        KeyOrder(NodeAt(tree, ParentPlace.val)) = KeyOrder(NodeAt(last.pre, ParentPlace.val))

\* What the json back-end does keep: the other keys stay in their order,
\* and the key written is the last one.
C13_OverwrittenKeyGoesLast ==
    (/\ InsertsUnderParent
     /\ ParentPlace.some
     /\ NodeAt(last.pre, ParentPlace.val).t = "obj") =>
        LET old == KeyOrder(NodeAt(last.pre, ParentPlace.val))
            new == KeyOrder(NodeAt(tree, ParentPlace.val))
            k == LastToken(last.p)
        IN  /\ new[Len(new)] = k
            /\ SubSeq(new, 1, Len(new) - 1) = SelectSeq(old, LAMBDA x : x # k)

\* ---- C14

\* C14: an insert_at that returns an error returns KeyNotFound or
\* UnsupportedInsertion and no other, and leaves the tree exactly as it was
\* before the call; so does a call that unwinds instead of returning.
C14_FailedInsertChangesNothing ==
    IsInsertCall =>
        /\ (~last.out.panicked /\ ~last.out.res.ok) =>
              /\ last.out.res.err \in {"KeyNotFound", "UnsupportedInsertion"}
              /\ last.out.tree = last.pre
              /\ tree = last.pre
        /\ last.out.panicked => tree = last.pre

\* null: "/0/1" has the missing parent "/0", and null stays null.
C14_Witness ==
    /\ IsInsertCall
    /\ last.pre = Null
    /\ last.p = <<"/", "0", "/", "1">>
    /\ ~last.out.panicked
    /\ last.out.res = Err("KeyNotFound")
    /\ tree = Null

\* A pointer without '/' has no parent: insert_at unwinds at the unwrap.
C14_UnwindsOnPointerWithoutSlash ==
    IsInsertCall => (last.out.panicked <=> (last.p # Pointer_root /\ HasNoSlash(last.p)))

\* ---- C15

\* a is b or stands above b: b's text is a's, or a's and then '/' and more.
IsAbove(a, b) ==
    /\ Len(a) <= Len(b)
    /\ SubSeq(b, 1, Len(a)) = a
    /\ Len(a) = Len(b) \/ b[Len(a) + 1] = "/"

\* The call is pointer(q) on the document a successful insert_at has left.
ResolvesAfterInsert ==
    /\ last.op = "pointer"
    /\ last.after.op = "insert_at"
    /\ ~last.after.out.panicked
    /\ last.after.out.res.ok

\* The pointer resolved is the pointer inserted at, and the value is found.
FindsInserted ==
    last.p = last.after.p =>
        last.res.some /\ NodeAt(last.pre, last.res.val) = last.after.v

\* The place q resolved to before the insertion, if any.
PlaceBefore == pointer(last.after.pre, last.p)

\* C15: after a successful insert_at(tree, p, v), pointer(tree, p) yields v,
\* for the root pointer, for "/" and for last tokens with escapes alike; and
\* every q that had a pointee before, and is neither p, nor above p, nor
\* below p, has the same value as its pointee as before.
C15_InsertThenResolve ==
    ResolvesAfterInsert =>
        /\ FindsInserted
        /\ (/\ PlaceBefore.some
            /\ ~IsAbove(last.p, last.after.p)
            /\ ~IsAbove(last.after.p, last.p)) =>
              /\ last.res.some
              /\ NodeAt(last.pre, last.res.val) = NodeAt(last.after.pre, PlaceBefore.val)

\* The first half of C15, which holds of every pointer.
C15_InsertedValueIsFound == ResolvesAfterInsert => FindsInserted

====
